---- MODULE Spec2Model ----
(***************************************************************************)
(* Model of coal_emissions_monitoring/dataset.py:                          *)
(*   CoalEmissionsDataset    - the iterable, worker-sharded sample stream  *)
(*   CoalEmissionsDataModule - setup (join, split, stream construction)    *)
(*                             and the per-split data loaders              *)
(* Python indices are 0-based; the k-th row of a table t (gdf.iloc[k]) is  *)
(* t[k + 1].  Fractions (dark fraction, train/val ratio) are in tenths.    *)
(***************************************************************************)
EXTENDS Integers, Sequences, FiniteSets, TLC

(***************************************************************************)
(* Bounds of the model                                                     *)
(***************************************************************************)
\* rows of a table
MaxRows == 3
\* worker processes of a DataLoader
MaxWorkers == 2
\* facilities in the files the data module reads
MaxFacilities == 2
\* facilities in the sets handed to the facility partitioner on its own
MaxFacilitySet == 4

(***************************************************************************)
(* Program constants                                                       *)
(***************************************************************************)
\* max_dark_frac: float = 0.5, in tenths
DefaultMaxDarkFrac == 5

\* constants.TEST_YEAR, the default of the test_year argument
TEST_YEAR == 2020

\* constants.EMISSIONS_TARGET, the default of the target argument
EMISSIONS_TARGET == "co2_mass_short_tons"

\* constants.IMAGE_SIZE_PX, the default of the image_size argument
IMAGE_SIZE_PX == 64

\* constants.FINAL_COLUMNS, the columns listed by the constructor's docstring
FINAL_COLUMNS ==
  {"facility_id", "facility_name", "latitude", "longitude", "ts",
   "co2_mass_short_tons", "cloud_cover", "cog_url", "geometry"}

(***************************************************************************)
(* Input domains                                                           *)
(***************************************************************************)
\* dark-pixel fractions (tenths) of the images the fetch can return
DarkFracs == {0, 5, 8}
\* outcome of get_image_from_cog: an array (with its dark fraction and its
\* shape) or an exception
FetchError == [ok |-> FALSE, dark |-> -1, shape |-> <<>>]
\* shapes of the arrays the fetch can return: three bands or a single band,
\* cropped to size x size pixels
ImageShape(channels, size) == <<channels, size, size>>
ImageShapes == {ImageShape(3, IMAGE_SIZE_PX), ImageShape(1, IMAGE_SIZE_PX)}
FetchResults ==
  [ok : {TRUE}, dark : DarkFracs, shape : {ImageShape(3, IMAGE_SIZE_PX)}] \cup {FetchError}
\* the fetches of the passes that look at the assembled Sample: bright and
\* dark images of either shape, or an exception
ShapedFetchResults ==
  [ok : {TRUE}, dark : {0, 8}, shape : ImageShapes] \cup {FetchError}
\* values of the transforms argument: None, a module that returns an image of
\* the dimensions it was given, a module that returns a batch of one image
Transforms == {"none", "same_dims", "adds_leading_dim"}
\* values of the emissions column: one that a 32-bit float holds exactly and
\* one that it does not (2^24 + 1)
Co2Values == {0, 16777217}
\* column sets of the tables handed to the constructor
ColumnSets ==
  {FINAL_COLUMNS, FINAL_COLUMNS \cup {"data_set"},
   FINAL_COLUMNS \ {"geometry"}, (FINAL_COLUMNS \cup {"data_set"}) \ {"geometry"}}
\* values of the max_dark_frac argument (tenths)
MaxDarkFracs == {DefaultMaxDarkFrac, 0}
\* values of the train_val_ratio argument handed to the partitioner (tenths)
Ratios == {0, 5, 8, 10}
\* values of the train_val_ratio argument of the data module (tenths)
ModuleRatios == {8}
\* years of the rows: before, at and after the test year
Years == {TEST_YEAR - 1, TEST_YEAR, TEST_YEAR + 1}
\* values of the stage argument of setup
Stages == {"fit", "test", "validate", "predict"}
\* values of the target argument
Targets == {EMISSIONS_TARGET, "is_powered_on"}
\* worker ids of a DataLoader
WorkerIds == 0 .. (MaxWorkers - 1)

\* a row of the table: its position in the joined table, its facility, the
\* year of its timestamp and its emissions value
Rows(facs, years, values) ==
  [id : 0 .. (MaxRows - 1), facility_id : facs, year : years, co2 : values]

\* an attribute or name that has not been assigned
NoDataset == [exists |-> FALSE]

VARIABLES
  dataset,          \* the CoalEmissionsDataset object under iteration
  ctor_columns,     \* gdf.columns of the most recent constructor call
  op,               \* the most recent call: "construct", "iter", "next", "setup", ...
  raised,           \* exception surfaced by the most recent call
  num_workers_it,   \* num_workers of the DataLoader of the current pass
  pc,               \* per worker: "off", "running", "done", "raised"
  pos,              \* per worker: number of indices of its range consumed
  fetched,          \* per worker: sequence of [idx, res] image fetches
  out,              \* per worker: sequence of Samples yielded
  prev_pass         \* history: how the pass before the current one stood when
                    \* iteration was started again ("none": there was none)

VARIABLES
  dm,                   \* the data module's configuration (set by its __init__)
  facilities,           \* facility ids in the file at campd_facilities_path
  final,                \* the joined table get_final_dataset builds from the files
  train_dataset,        \* self.train_dataset
  val_dataset,          \* self.val_dataset
  test_dataset,         \* self.test_dataset
  partition,            \* mapping returned by the facility partitioner called on its own
  stage                 \* the stage argument of the most recent call ("none":
                        \* the call takes no stage)

streamVars == <<dataset, ctor_columns, num_workers_it, pc, pos, fetched, out, prev_pass>>
moduleVars ==
  <<dm, facilities, final, train_dataset, val_dataset, test_dataset, partition, stage>>
vars == <<op, raised, streamVars, moduleVars>>

(***************************************************************************)
(* Tables                                                                  *)
(***************************************************************************)
\* order of the rows of the joined table: by facility, then by year
RowLeq(a, b) ==
  \/ a.facility_id < b.facility_id
  \/ a.facility_id = b.facility_id /\ a.year <= b.year

\* the tables of n rows over the given facilities, years and emissions
\* values; a row's id is its position in the table
TablesOfLen(n, facs, years, values) ==
  {t \in [1 .. n -> Rows(facs, years, values)] :
     /\ \A i \in 1 .. n : t[i].id = i - 1
     /\ \A i \in 1 .. (n - 1) : RowLeq(t[i], t[i + 1])}

TablesOf(facs, years, values) ==
  UNION {TablesOfLen(n, facs, years, values) : n \in 0 .. MaxRows}

(***************************************************************************)
(* CoalEmissionsDataset                                                    *)
(***************************************************************************)
\* variant of HasFinalColumns: the set difference taken the wrong way round
HasFinalColumns_Reversed(columns) == columns \ FINAL_COLUMNS = {}

\* the assertion of __init__: set(FINAL_COLUMNS) - set(gdf.columns) is empty
HasFinalColumns(columns) == FINAL_COLUMNS \ columns = {}

\* the object __init__ builds
NewDataset(table, columns, target, max_dark_frac, transforms) ==
  [exists |-> TRUE, gdf |-> table, columns |-> columns, target |-> target,
   max_dark_frac |-> max_dark_frac, transforms |-> transforms]

\* __len__
DatasetLen(ds) == Len(ds.gdf)

\* Python's range(start, stop, step) for step > 0, as a sequence
RECURSIVE PyRange(_, _, _)
PyRange(start, stop, step) ==
  IF start >= stop THEN <<>>
  ELSE <<start>> \o PyRange(start + step, stop, step)

\* torch.utils.data.get_worker_info() seen by process w of a DataLoader with
\* the given num_workers: none in the main process (num_workers = 0)
GetWorkerInfo(num_workers, w) ==
  IF num_workers = 0 THEN [exists |-> FALSE]
  ELSE [exists |-> TRUE, num_workers |-> num_workers, id |-> w]

\* the processes that iterate the dataset for a DataLoader
Processes(num_workers) ==
  IF num_workers = 0 THEN {0} ELSE 0 .. (num_workers - 1)

\* variant of IterIndices: the range advances by 1 instead of the worker count
IterIndices_StepOne(ds, info) ==
  LET worker_id == IF info.exists THEN info.id ELSE 0
  IN PyRange(worker_id, Len(ds.gdf), 1)

\* variant of IterIndices: every worker starts at index 0
IterIndices_IgnoreId(ds, info) ==
  LET worker_total_num == IF info.exists THEN info.num_workers ELSE 1
  IN PyRange(0, Len(ds.gdf), worker_total_num)

\* variant of IterIndices: the shard is walked from its last index down
IterIndices_Descending(ds, info) ==
  LET worker_total_num == IF info.exists THEN info.num_workers ELSE 1
      worker_id == IF info.exists THEN info.id ELSE 0
      up == PyRange(worker_id, Len(ds.gdf), worker_total_num)
  IN [i \in 1 .. Len(up) |-> up[Len(up) + 1 - i]]

\* the indices the for loop of __iter__ visits, in order
IterIndices(ds, info) ==
  LET worker_total_num == IF info.exists THEN info.num_workers ELSE 1
      worker_id == IF info.exists THEN info.id ELSE 0
  IN PyRange(worker_id, DatasetLen(ds), worker_total_num)

\* satellite_imagery.is_image_too_dark: the dark fraction exceeds the maximum
IsImageTooDark(image, max_dark_frac) == image.dark > max_dark_frac

\* torch.from_numpy(image).float(): the float tensor of the fetched array
ToFloatTensor(res) ==
  [dark |-> res.dark, shape |-> res.shape, dtype |-> "float32", transformed |-> "none"]

\* no tensor: the fetch raised
NoImage == [dark |-> -1, shape |-> <<>>, dtype |-> "none", transformed |-> "none"]

\* self.transforms(image): a transform returns the image with the dimensions
\* it was given, or (a batching module) with a leading dimension of size 1
ApplyTransform(transforms, image) ==
  [image EXCEPT !.shape = IF transforms = "adds_leading_dim" THEN <<1>> \o @ ELSE @,
                !.transformed = transforms]

\* Tensor.squeeze(0): dimension 0 is removed when its size is 1
Squeeze0(image) ==
  [image EXCEPT !.shape = IF Len(@) > 0 /\ @[1] = 1 THEN Tail(@) ELSE @]

\* the image of the Sample: self.transforms(image).squeeze(0) when a
\* transform is configured, the float tensor otherwise
TransformImage(ds, image) ==
  IF ds.transforms # "none" THEN Squeeze0(ApplyTransform(ds.transforms, image))
  ELSE image

\* a pandas Timestamp and the result of str() on a value
Timestamp(year) == [type |-> "Timestamp", year |-> year]
Str(v) == [type |-> "str", of |-> v]

\* row[column]: the facility, the timestamp and the emissions value are the
\* row's; any other cell is identified by its column and row
RowValue(row, column) ==
  CASE column = "facility_id" -> row.facility_id
    [] column = "ts" -> Timestamp(row.year)
    [] column = EMISSIONS_TARGET -> row.co2
    [] OTHER -> [type |-> "cell", column |-> column, row |-> row.id]

\* the spacing of the 32-bit floats around a non-negative integer a (24-bit
\* significand)
RECURSIVE Ulp(_)
Ulp(a) == IF a < 16777216 THEN 1 ELSE 2 * Ulp(a \div 2)

\* variant of Float32: halves are rounded away from zero
Float32_HalfUp(v) ==
  LET a == IF v < 0 THEN -v ELSE v
      u == Ulp(a)
      n == IF 2 * (a % u) < u THEN a \div u ELSE (a \div u) + 1
  IN [dtype |-> "float32", value |-> IF v < 0 THEN -(n * u) ELSE n * u]

\* torch.tensor(v).float() for an integer v: the nearest 32-bit float, halves
\* to the even significand
Float32(v) ==
  LET a == IF v < 0 THEN -v ELSE v
      u == Ulp(a)
      q == a \div u
      r == a % u
      n == IF 2 * r < u THEN q
           ELSE IF 2 * r > u THEN q + 1
           ELSE IF q % 2 = 0 THEN q ELSE q + 1
  IN [dtype |-> "float32", value |-> IF v < 0 THEN -(n * u) ELSE n * u]

\* the fields row.drop([...]) is asked to remove
DroppedFields(ds) == {ds.target, "geometry", "data_set"}

\* variant of Metadata: the geometry stays in the mapping
Metadata_KeepGeometry(ds, row) ==
  [c \in ds.columns \ {ds.target, "data_set"} |->
     IF c = "ts" THEN Str(RowValue(row, c)) ELSE RowValue(row, c)]

\* row.drop([...]).to_dict() with metadata["ts"] = str(metadata["ts"])
Metadata(ds, row) ==
  [c \in ds.columns \ DroppedFields(ds) |->
     IF c = "ts" THEN Str(RowValue(row, c)) ELSE RowValue(row, c)]

\* Lines 97-106 for index idx and the float tensor image, after the steps
\* done so far: transform and squeeze, target, metadata, yield. checked is
\* the tensor the darkness check was given.
Assemble(ds, idx, image, checked, done) ==
  LET row == ds.gdf[idx + 1]
      steps == IF ds.transforms # "none" THEN done \o <<"transforms", "squeeze">> ELSE done
      fail(at) == [kind |-> "raise", exc |-> "KeyError", fetch |-> TRUE,
                   steps |-> steps \o at, checked |-> checked]
  IN IF ds.target \notin ds.columns
       THEN fail(<<"target">>)
     ELSE IF ~(DroppedFields(ds) \subseteq ds.columns)
       THEN fail(<<"target", "metadata">>)
     ELSE IF "ts" \notin (ds.columns \ DroppedFields(ds))
       THEN fail(<<"target", "metadata">>)
     ELSE [kind |-> "yield", fetch |-> TRUE,
           steps |-> steps \o <<"target", "metadata", "yield">>, checked |-> checked,
           sample |-> [idx |-> idx, id |-> row.id,
                       image |-> TransformImage(ds, image),
                       target |-> Float32(RowValue(row, ds.target)),
                       metadata |-> Metadata(ds, row)]]

\* variant of LoopBody: a failed fetch is swallowed and the row skipped
LoopBody_SkipOnError(ds, idx, res) ==
  IF ~({"cog_url", "geometry"} \subseteq ds.columns)
    THEN [kind |-> "raise", exc |-> "AttributeError", fetch |-> FALSE,
          steps |-> <<>>, checked |-> NoImage]
  ELSE IF ~res.ok
    THEN [kind |-> "skip", fetch |-> TRUE,
          steps |-> <<"get_image_from_cog">>, checked |-> NoImage]
  ELSE LET image == ToFloatTensor(res)
           steps == <<"get_image_from_cog", "float", "is_image_too_dark">>
       IN IF IsImageTooDark(image, ds.max_dark_frac)
            THEN [kind |-> "skip", fetch |-> TRUE, steps |-> steps, checked |-> image]
          ELSE Assemble(ds, idx, image, image, steps)

\* variant of LoopBody: the transform runs before the darkness check
LoopBody_TransformFirst(ds, idx, res) ==
  IF ~({"cog_url", "geometry"} \subseteq ds.columns)
    THEN [kind |-> "raise", exc |-> "AttributeError", fetch |-> FALSE,
          steps |-> <<>>, checked |-> NoImage]
  ELSE IF ~res.ok
    THEN [kind |-> "raise", exc |-> "FetchError", fetch |-> TRUE,
          steps |-> <<"get_image_from_cog">>, checked |-> NoImage]
  ELSE LET image == TransformImage(ds, ToFloatTensor(res))
           steps == IF ds.transforms # "none"
                      THEN <<"get_image_from_cog", "float", "transforms", "squeeze",
                             "is_image_too_dark">>
                      ELSE <<"get_image_from_cog", "float", "is_image_too_dark">>
       IN IF IsImageTooDark(image, ds.max_dark_frac)
            THEN [kind |-> "skip", fetch |-> TRUE, steps |-> steps, checked |-> image]
          ELSE Assemble([ds EXCEPT !.transforms = "none"], idx, image, image, steps)

\* One execution of the loop body for index idx, given what the fetch
\* returns. kind: "raise" (exception leaves the generator), "skip"
\* (continue) or "yield"; fetch: whether get_image_from_cog was called;
\* steps: the statements executed, in order; checked: the tensor handed to
\* the darkness check.
LoopBody(ds, idx, res) ==
  IF ~({"cog_url", "geometry"} \subseteq ds.columns)
    THEN [kind |-> "raise", exc |-> "AttributeError", fetch |-> FALSE,
          steps |-> <<>>, checked |-> NoImage]
  ELSE IF ~res.ok
    THEN [kind |-> "raise", exc |-> "FetchError", fetch |-> TRUE,
          steps |-> <<"get_image_from_cog">>, checked |-> NoImage]
  ELSE LET image == ToFloatTensor(res)
           steps == <<"get_image_from_cog", "float", "is_image_too_dark">>
       IN IF IsImageTooDark(image, ds.max_dark_frac)
            THEN [kind |-> "skip", fetch |-> TRUE, steps |-> steps, checked |-> image]
          ELSE Assemble(ds, idx, image, image, steps)

(***************************************************************************)
(* State after import: no dataset object, no pass                          *)
(***************************************************************************)
NoPass ==
  /\ num_workers_it = 0
  /\ pc = [w \in WorkerIds |-> "off"]
  /\ pos = [w \in WorkerIds |-> 0]
  /\ fetched = [w \in WorkerIds |-> <<>>]
  /\ out = [w \in WorkerIds |-> <<>>]
  /\ prev_pass = "none"

NoModule ==
  /\ dm = [exists |-> FALSE]
  /\ facilities = {}
  /\ final = <<>>
  /\ train_dataset = NoDataset
  /\ val_dataset = NoDataset
  /\ test_dataset = NoDataset
  /\ partition = [f \in {} |-> "train"]
  /\ stage = "none"

Init ==
  /\ dataset = NoDataset
  /\ ctor_columns = {}
  /\ op = "import"
  /\ raised = "none"
  /\ NoPass
  /\ NoModule

(***************************************************************************)
(* Actions of the stream                                                   *)
(***************************************************************************)
\* variant of Construct: the constructor fetches the image of the first row
Construct_Eager(table, columns, target, max_dark_frac, transforms) ==
  /\ ctor_columns' = columns
  /\ op' = "construct"
  /\ IF HasFinalColumns(columns)
       THEN /\ dataset' = NewDataset(table, columns, target, max_dark_frac, transforms)
            /\ raised' = "none"
            /\ num_workers_it' = 0
            /\ pc' = [w \in WorkerIds |-> "off"]
            /\ pos' = [w \in WorkerIds |-> 0]
            /\ fetched' = [w \in WorkerIds |->
                             IF w = 0 /\ Len(table) > 0
                               THEN <<[idx |-> 0, res |-> FetchError,
                                       steps |-> <<"get_image_from_cog">>,
                                       checked |-> NoImage]>>
                             ELSE <<>>]
            /\ out' = [w \in WorkerIds |-> <<>>]
            /\ prev_pass' = "none"
       ELSE /\ raised' = "AssertionError"
            /\ UNCHANGED <<dataset, num_workers_it, pc, pos, fetched, out, prev_pass>>
  /\ UNCHANGED moduleVars

\* ds = CoalEmissionsDataset(gdf, target, max_dark_frac=..., transforms=...)
\* A failed assertion leaves the previous object and its pass as they were;
\* the consumer drops the iterators of the object it replaces.
Construct(table, columns, target, max_dark_frac, transforms) ==
  /\ ctor_columns' = columns
  /\ op' = "construct"
  /\ IF HasFinalColumns(columns)
       THEN /\ dataset' = NewDataset(table, columns, target, max_dark_frac, transforms)
            /\ raised' = "none"
            /\ num_workers_it' = 0
            /\ pc' = [w \in WorkerIds |-> "off"]
            /\ pos' = [w \in WorkerIds |-> 0]
            /\ fetched' = [w \in WorkerIds |-> <<>>]
            /\ out' = [w \in WorkerIds |-> <<>>]
            /\ prev_pass' = "none"
       ELSE /\ raised' = "AssertionError"
            /\ UNCHANGED <<dataset, num_workers_it, pc, pos, fetched, out, prev_pass>>
  /\ UNCHANGED moduleVars

\* variant of Iter: the generator keeps the cursor of the pass before
Iter_Resume(nw) ==
  /\ dataset.exists
  /\ op' = "iter"
  /\ num_workers_it' = nw
  /\ pc' = [w \in WorkerIds |-> IF w \in Processes(nw) THEN "running" ELSE "off"]
  /\ pos' = pos
  /\ fetched' = [w \in WorkerIds |-> <<>>]
  /\ out' = [w \in WorkerIds |-> <<>>]
  /\ raised' = "none"
  /\ UNCHANGED <<dataset, ctor_columns>>
  /\ UNCHANGED moduleVars

\* iter(DataLoader(ds, num_workers=nw)): every process calls __iter__, which
\* makes a new generator and runs none of its statements before the first
\* next(); the consumer drops the generators of the pass before
Iter(nw) ==
  /\ dataset.exists
  /\ op' = "iter"
  /\ num_workers_it' = nw
  /\ pc' = [w \in WorkerIds |-> IF w \in Processes(nw) THEN "running" ELSE "off"]
  /\ pos' = [w \in WorkerIds |-> 0]
  /\ fetched' = [w \in WorkerIds |-> <<>>]
  /\ out' = [w \in WorkerIds |-> <<>>]
  /\ raised' = "none"
  /\ UNCHANGED <<dataset, ctor_columns>>
  /\ UNCHANGED moduleVars

\* a pass is started; what came before it is not looked at
StartPass(nw) == Iter(nw) /\ UNCHANGED prev_pass

\* how the current pass stands: no pass, opened but nothing pulled, ended by
\* an exception, run to the end by every process, or left part-way
PassStatus ==
  IF \A w \in WorkerIds : pc[w] = "off" THEN "none"
  ELSE IF \E w \in WorkerIds : pc[w] = "raised" THEN "failed"
  ELSE IF \A w \in WorkerIds : pc[w] \in {"off", "done"} THEN "complete"
  ELSE IF \A w \in WorkerIds : pos[w] = 0 THEN "not_started"
  ELSE "interrupted"

\* a pass is started and the standing of the pass it replaces is noted
Restart(nw) == Iter(nw) /\ prev_pass' = PassStatus

\* one iteration of the for loop in process w: the range is exhausted, or
\* the loop body runs for the next index
Step(w, res) ==
  /\ pc[w] = "running"
  /\ op' = "next"
  /\ LET indices == IterIndices(dataset, GetWorkerInfo(num_workers_it, w))
     IN IF pos[w] >= Len(indices)
          THEN /\ pc' = [pc EXCEPT ![w] = "done"]
               /\ raised' = "none"
               /\ UNCHANGED <<pos, fetched, out>>
          ELSE LET idx == indices[pos[w] + 1]
                   r == LoopBody(dataset, idx, res)
               IN /\ pos' = [pos EXCEPT ![w] = @ + 1]
                  /\ fetched' = IF r.fetch
                                  THEN [fetched EXCEPT ![w] =
                                          Append(@, [idx |-> idx, res |-> res,
                                                     steps |-> r.steps,
                                                     checked |-> r.checked])]
                                  ELSE fetched
                  /\ out' = IF r.kind = "yield"
                              THEN [out EXCEPT ![w] = Append(@, r.sample)]
                              ELSE out
                  /\ pc' = IF r.kind = "raise" THEN [pc EXCEPT ![w] = "raised"] ELSE pc
                  /\ raised' = IF r.kind = "raise" THEN r.exc ELSE "none"
  /\ UNCHANGED <<dataset, ctor_columns, num_workers_it, prev_pass>>
  /\ UNCHANGED moduleVars

\* facilities and years of the rows of the tables given to the constructor
StreamFacilities == {1}
StreamYears == {TEST_YEAR}
StreamValues == {0}

ConstructAny ==
  \E table \in TablesOf(StreamFacilities, StreamYears, StreamValues), columns \in ColumnSets,
     target \in Targets, max_dark_frac \in MaxDarkFracs :
    Construct(table, columns, target, max_dark_frac, "none")

StartAny == \E nw \in 0 .. MaxWorkers : StartPass(nw)

StepAny == \E w \in WorkerIds, res \in FetchResults : Step(w, res)

Next == ConstructAny \/ StartAny \/ StepAny

Spec == Init /\ [][Next]_vars

(***************************************************************************)
(* The stream over passes started again and again on one table             *)
(***************************************************************************)
ConstructStream ==
  \E table \in TablesOf(StreamFacilities, StreamYears, StreamValues) :
    Construct(table, FINAL_COLUMNS \cup {"data_set"}, EMISSIONS_TARGET,
              DefaultMaxDarkFrac, "none")

RestartAny == \E nw \in 0 .. MaxWorkers : Restart(nw)

NextRestart == ConstructStream \/ RestartAny \/ StepAny

SpecRestart == Init /\ [][NextRestart]_vars

(***************************************************************************)
(* The stream in one process, over tables with emissions values, images    *)
(* of either shape and every kind of transform: what a Sample holds        *)
(***************************************************************************)
\* columns of the tables: as setup hands them over (with the split label)
\* and as the constructor's docstring lists them
SampleColumnSets == {FINAL_COLUMNS \cup {"data_set"}, FINAL_COLUMNS}

ConstructSample ==
  \E table \in TablesOf(StreamFacilities, StreamYears, Co2Values),
     columns \in SampleColumnSets, transforms \in Transforms :
    Construct(table, columns, EMISSIONS_TARGET, DefaultMaxDarkFrac, transforms)

\* iter(ds) in the main process, or iter(DataLoader(ds)) with num_workers = 0
StartSample == StartPass(0)

StepSample == \E res \in ShapedFetchResults : Step(0, res)

NextSample == ConstructSample \/ StartSample \/ StepSample

SpecSample == Init /\ [][NextSample]_vars

(***************************************************************************)
(* Facility partitioner and row-level split (ml_utils)                     *)
(***************************************************************************)
\* number of train facilities for F facilities and ratio r (tenths): F * r
\* rounded down or up
TrainCounts(F, r) == {(F * r) \div 10, (F * r + 9) \div 10}

\* variant of GetFacilitySetMapper: every facility is drawn independently,
\* whatever the counts
GetFacilitySetMapper_Independent(facs, train_val_ratio) ==
  [facs -> {"train", "val"}]

\* ml_utils.get_facility_set_mapper: the mappings a shuffle of the distinct
\* facilities followed by a split by count can produce
GetFacilitySetMapper(facs, train_val_ratio) ==
  {m \in [facs -> {"train", "val"}] :
     Cardinality({f \in facs : m[f] = "train"}) \in TrainCounts(Cardinality(facs), train_val_ratio)}

\* ml_utils.split_data_in_sets: the year cutoff first, else the facility's set
SplitDataInSets(row, data_set_mapper, test_year) ==
  IF row.year >= test_year THEN "test" ELSE data_set_mapper[row.facility_id]

(***************************************************************************)
(* CoalEmissionsDataModule                                                 *)
(***************************************************************************)
\* the columns of the table get_final_dataset returns
FinalTableColumns == FINAL_COLUMNS

\* variant of LabelRows: the cutoff handed on is one year late
LabelRows_LateCutoff(table, mapper, test_year) ==
  [i \in 1 .. Len(table) |->
     [id |-> table[i].id, facility_id |-> table[i].facility_id, year |-> table[i].year,
      co2 |-> table[i].co2,
      data_set |-> SplitDataInSets(table[i], mapper, test_year + 1)]]

\* gdf["data_set"] = gdf.apply(lambda row: split_data_in_sets(...), axis=1)
LabelRows(table, mapper, test_year) ==
  [i \in 1 .. Len(table) |->
     [id |-> table[i].id, facility_id |-> table[i].facility_id, year |-> table[i].year,
      co2 |-> table[i].co2,
      data_set |-> SplitDataInSets(table[i], mapper, test_year)]]

\* how the assignment of line 175 ends. On a table with rows, apply calls
\* split_data_in_sets on every row and the new column is assigned. On a table
\* without rows it is called on no row of the table: pandas tries it once on
\* a row of missing values, and either that call returns and an empty column
\* is assigned, or it raises, apply hands back a copy of the table and the
\* assignment of a whole table to one column raises ValueError
LabelOutcomes(table) ==
  IF table = <<>> THEN {"assigned", "ValueError"} ELSE {"assigned"}

\* gdf[gdf.data_set == "train"]
TrainRows(labelled) == SelectSeq(labelled, LAMBDA r : r.data_set = "train")

\* variant of ValRows: everything that is not train
ValRows_NotTrain(labelled) == SelectSeq(labelled, LAMBDA r : r.data_set # "train")

\* gdf[gdf.data_set == "val"]
ValRows(labelled) == SelectSeq(labelled, LAMBDA r : r.data_set = "val")

\* gdf[gdf.data_set == "test"]
TestRows(labelled) == SelectSeq(labelled, LAMBDA r : r.data_set = "test")

\* variant of Sample: the rows are drawn with replacement
Sample_WithReplacement(table) ==
  LET n == Len(table)
  IN {[i \in 1 .. n |-> table[p[i]]] : p \in [1 .. n -> 1 .. n]}

\* .sample(frac=1): the orders a full shuffle of the rows can produce
Sample(table) ==
  LET n == Len(table)
  IN {[i \in 1 .. n |-> table[p[i]]] :
        p \in {q \in [1 .. n -> 1 .. n] : \A i, j \in 1 .. n : i # j => q[i] # q[j]}}

\* self.train_dataset and self.val_dataset are assigned (lines 182-193)
ConstructFit(gdf, columns) ==
  \E tr \in Sample(TrainRows(gdf)), va \in Sample(ValRows(gdf)) :
    /\ train_dataset' = NewDataset(tr, columns, dm.target,
                                   DefaultMaxDarkFrac, "train_transforms")
    /\ val_dataset' = NewDataset(va, columns, dm.target,
                                 DefaultMaxDarkFrac, "val_transforms")

\* self.test_dataset is assigned (lines 195-200)
ConstructTest(gdf, columns) ==
  \E te \in Sample(TestRows(gdf)) :
    test_dataset' = NewDataset(te, columns, dm.target,
                               DefaultMaxDarkFrac, "test_transforms")

\* variant of ConstructSplits: "fit" builds the test stream as well
ConstructSplits_AllSplits(stage_arg, gdf) ==
  LET columns == FinalTableColumns \cup {"data_set"}
  IN IF stage_arg = "fit"
       THEN /\ ConstructFit(gdf, columns)
            /\ ConstructTest(gdf, columns)
            /\ raised' = "none"
     ELSE IF stage_arg = "test"
       THEN /\ ConstructTest(gdf, columns)
            /\ raised' = "none"
            /\ UNCHANGED <<train_dataset, val_dataset>>
     ELSE /\ raised' = "none"
          /\ UNCHANGED <<train_dataset, val_dataset, test_dataset>>

\* variant of ConstructSplits: every stage other than "fit" is taken as "test"
ConstructSplits_ElseTest(stage_arg, gdf) ==
  LET columns == FinalTableColumns \cup {"data_set"}
  IN IF stage_arg = "fit"
       THEN /\ ConstructFit(gdf, columns)
            /\ raised' = "none"
            /\ UNCHANGED test_dataset
     ELSE /\ ConstructTest(gdf, columns)
          /\ raised' = "none"
          /\ UNCHANGED <<train_dataset, val_dataset>>

\* the stage dispatch of setup (lines 181-200) on the labelled table gdf
ConstructSplits(stage_arg, gdf) ==
  LET columns == FinalTableColumns \cup {"data_set"}
  IN IF stage_arg \in {"fit", "test"} /\ ~HasFinalColumns(columns)
       THEN /\ raised' = "AssertionError"
            /\ UNCHANGED <<train_dataset, val_dataset, test_dataset>>
     ELSE IF stage_arg = "fit"
       THEN /\ ConstructFit(gdf, columns)
            /\ raised' = "none"
            /\ UNCHANGED test_dataset
     ELSE IF stage_arg = "test"
       THEN /\ ConstructTest(gdf, columns)
            /\ raised' = "none"
            /\ UNCHANGED <<train_dataset, val_dataset>>
     ELSE /\ raised' = "none"
          /\ UNCHANGED <<train_dataset, val_dataset, test_dataset>>

\* variant of Setup: an empty facility collection is partitioned like any other
Setup_NoEmptyCheck(stage_arg) ==
  /\ dm.exists
  /\ op' = "setup"
  /\ stage' = stage_arg
  /\ UNCHANGED <<streamVars, dm, facilities, final, partition>>
  /\ \E facility_set_mapper \in GetFacilitySetMapper(facilities, dm.train_val_ratio),
        labelling \in LabelOutcomes(final) :
       IF labelling # "assigned"
         THEN /\ raised' = labelling
              /\ UNCHANGED <<train_dataset, val_dataset, test_dataset>>
       ELSE ConstructSplits(stage_arg, LabelRows(final, facility_set_mapper, dm.test_year))

\* setup(stage): the joined table is read, the facilities are partitioned
\* (which fails on an empty collection), every row is labelled (which can
\* fail on a table without rows), and the stage decides which streams are
\* built
Setup(stage_arg) ==
  /\ dm.exists
  /\ op' = "setup"
  /\ stage' = stage_arg
  /\ UNCHANGED <<streamVars, dm, facilities, final, partition>>
  /\ IF facilities = {}
       THEN /\ raised' = "ValueError"
            /\ UNCHANGED <<train_dataset, val_dataset, test_dataset>>
       ELSE \E facility_set_mapper \in GetFacilitySetMapper(facilities, dm.train_val_ratio),
               labelling \in LabelOutcomes(final) :
              IF labelling # "assigned"
                THEN /\ raised' = labelling
                     /\ UNCHANGED <<train_dataset, val_dataset, test_dataset>>
              ELSE ConstructSplits(stage_arg, LabelRows(final, facility_set_mapper, dm.test_year))

\* return DataLoader(self.<split>_dataset, batch_size=..., num_workers=...):
\* reading an attribute that no setup has assigned raises AttributeError,
\* otherwise the loader over that dataset is returned
Dataloader(split, attribute) ==
  /\ dm.exists
  /\ op' = split
  /\ raised' = IF attribute.exists THEN "none" ELSE "AttributeError"
  /\ stage' = "none"
  /\ UNCHANGED <<streamVars, dm, facilities, final, train_dataset, val_dataset,
                 test_dataset, partition>>

train_dataloader == Dataloader("train_dataloader", train_dataset)
val_dataloader == Dataloader("val_dataloader", val_dataset)
test_dataloader == Dataloader("test_dataloader", test_dataset)

SetupAny == \E stage_arg \in Stages : Setup(stage_arg)

\* the data module right after its constructor, over files of bounded size
InitModule ==
  /\ dataset = NoDataset
  /\ ctor_columns = {}
  /\ op = "import"
  /\ raised = "none"
  /\ NoPass
  /\ \E r \in ModuleRatios, ty \in {TEST_YEAR}, nw \in {MaxWorkers} :
       dm = [exists |-> TRUE, train_val_ratio |-> r, test_year |-> ty,
             num_workers |-> nw, target |-> EMISSIONS_TARGET]
  /\ facilities \in {1 .. n : n \in 0 .. MaxFacilities}
  /\ final \in TablesOf(facilities, Years, {0})
  /\ train_dataset = NoDataset
  /\ val_dataset = NoDataset
  /\ test_dataset = NoDataset
  /\ partition = [f \in {} |-> "train"]
  /\ stage = "none"

NextModule == SetupAny \/ train_dataloader \/ val_dataloader \/ test_dataloader

SpecModule == InitModule /\ [][NextModule]_vars

(***************************************************************************)
(* The facility partitioner on its own, over facility sets and ratios      *)
(***************************************************************************)
InitPartition ==
  /\ dataset = NoDataset
  /\ ctor_columns = {}
  /\ op = "import"
  /\ raised = "none"
  /\ NoPass
  /\ \E r \in Ratios :
       dm = [exists |-> TRUE, train_val_ratio |-> r, test_year |-> TEST_YEAR,
             num_workers |-> 0, target |-> EMISSIONS_TARGET]
  /\ facilities \in SUBSET (1 .. MaxFacilitySet)
  /\ final = <<>>
  /\ train_dataset = NoDataset
  /\ val_dataset = NoDataset
  /\ test_dataset = NoDataset
  /\ partition = [f \in {} |-> "train"]
  /\ stage = "none"

\* facility_set_mapper = get_facility_set_mapper(campd_facilities_path,
\* train_val_ratio), as setup calls it
PartitionFacilities ==
  /\ op' = "get_facility_set_mapper"
  /\ IF facilities = {}
       THEN /\ raised' = "ValueError"
            /\ UNCHANGED partition
       ELSE /\ partition' \in GetFacilitySetMapper(facilities, dm.train_val_ratio)
            /\ raised' = "none"
  /\ UNCHANGED <<streamVars, dm, facilities, final, train_dataset, val_dataset,
                 test_dataset, stage>>

NextPartition == PartitionFacilities

SpecPartition == InitPartition /\ [][NextPartition]_vars

(***************************************************************************)
(* Vocabulary of the properties                                            *)
(***************************************************************************)
\* number of rows of the table under iteration
N == Len(dataset.gdf)
\* worker count of the current pass: no worker context behaves as one worker
W == IF num_workers_it = 0 THEN 1 ELSE num_workers_it
\* the indices i, i + W, i + 2W, ... below N
Shard(i) == {k \in 0 .. (N - 1) : k % W = i}
\* indices whose image process w has fetched in this pass
FetchedIdx(w) == {fetched[w][i].idx : i \in 1 .. Len(fetched[w])}
\* indices of the Samples process w has yielded in this pass
YieldedIdx(w) == {out[w][i].idx : i \in 1 .. Len(out[w])}
Active == {w \in WorkerIds : pc[w] # "off"}
PassRunning == Active # {}
PassComplete == PassRunning /\ \A w \in Active : pc[w] = "done"
RECURSIVE SumLen(_, _)
SumLen(f, S) ==
  IF S = {} THEN 0
  ELSE LET w == CHOOSE x \in S : TRUE IN Len(f[w]) + SumLen(f, S \ {w})
Emitted == SumLen(out, WorkerIds)
\* number of Samples with index k, over all workers
TimesYielded(k) ==
  Cardinality({<<w, i>> \in WorkerIds \X (1 .. MaxRows + 1) :
                 i <= Len(out[w]) /\ out[w][i].idx = k})
NoRepeat(seq) == \A i, j \in 1 .. Len(seq) : i # j => seq[i].idx # seq[j].idx

(***************************************************************************)
(* C1. Sharding: in a pass over N rows with W workers, worker i processes  *)
(* only indices i, i+W, i+2W, ... below N, each at most once; the workers' *)
(* index sets are disjoint; a worker that finishes has processed exactly   *)
(* its shard, so a complete pass processes {0..N-1}, every index once.     *)
(* Without worker context (num_workers = 0) process 0 alone processes all  *)
(* indices.                                                                *)
(***************************************************************************)
C1_Sharding ==
  PassRunning =>
    /\ Active = 0 .. (W - 1)
    /\ \A w \in WorkerIds \ Active : FetchedIdx(w) = {}
    /\ \A w \in Active :
         /\ FetchedIdx(w) \subseteq Shard(w)
         /\ NoRepeat(fetched[w])
         /\ pc[w] = "done" => FetchedIdx(w) = Shard(w)
    /\ \A v, w \in Active : v # w => FetchedIdx(v) \cap FetchedIdx(w) = {}
    /\ PassComplete => UNION {FetchedIdx(w) : w \in Active} = 0 .. (N - 1)
    /\ (num_workers_it = 0 /\ PassComplete) => FetchedIdx(0) = 0 .. (N - 1)

C1_Witness ==
  /\ PassComplete
  /\ num_workers_it = 2
  /\ N = 3
  /\ FetchedIdx(0) = {0, 2}
  /\ FetchedIdx(1) = {1}

(***************************************************************************)
(* C2. Darkness filter: a row whose fetched image is too dark is never     *)
(* yielded by any worker, and every row whose fetch succeeded with an      *)
(* image that is not too dark is yielded exactly once.                     *)
(***************************************************************************)
C2_DarknessFilter ==
  \A w \in WorkerIds : \A i \in 1 .. Len(fetched[w]) :
    LET f == fetched[w][i]
    IN /\ (f.res.ok /\ f.res.dark > dataset.max_dark_frac) => TimesYielded(f.idx) = 0
       /\ (f.res.ok /\ f.res.dark <= dataset.max_dark_frac) => TimesYielded(f.idx) = 1

(***************************************************************************)
(* C3. Length bound: len(stream) is the row count N whatever the worker    *)
(* count; the Samples emitted over all workers never exceed N; a complete  *)
(* pass in which no fetched image was dark has emitted exactly N.          *)
(***************************************************************************)
NoDarkFetched ==
  \A w \in WorkerIds : \A i \in 1 .. Len(fetched[w]) :
    fetched[w][i].res.ok /\ fetched[w][i].res.dark <= dataset.max_dark_frac

C3_LengthBound ==
  dataset.exists =>
    /\ DatasetLen(dataset) = N
    /\ Emitted <= DatasetLen(dataset)
    /\ (PassComplete /\ NoDarkFetched) => Emitted = DatasetLen(dataset)

C3_Witness ==
  /\ PassComplete
  /\ NoDarkFetched
  /\ num_workers_it = 2
  /\ N = 3
  /\ Emitted = 3

(***************************************************************************)
(* C4. Fast-fail construction: a constructor call on a table that lacks a  *)
(* required column raises at once and leaves no stream object for it: the  *)
(* previous object, its pass and its fetches are untouched, and every      *)
(* stream object that exists has all required columns.                     *)
(***************************************************************************)
LacksRequired(columns) == \E c \in FINAL_COLUMNS : c \notin columns

C4_FastFail ==
  /\ [](dataset.exists => ~LacksRequired(dataset.columns))
  /\ [][(op' = "construct" /\ LacksRequired(ctor_columns')) =>
          /\ raised' = "AssertionError"
          /\ UNCHANGED <<dataset, num_workers_it, pc, pos, fetched, out>>]_vars

C4_Witness ==
  /\ raised = "AssertionError"
  /\ "geometry" \notin ctor_columns
  /\ ~dataset.exists
  /\ ~PassRunning

(***************************************************************************)
(* C5. Field absence is detected at construction only: once a stream       *)
(* object exists, processing a row never fails because a field the loop    *)
(* body reads or drops is absent.                                          *)
(***************************************************************************)
C5_NoRowFieldFailure == raised \notin {"KeyError", "AttributeError"}

(***************************************************************************)
(* C9. Per-worker ordering: the Samples a worker yields are in strictly    *)
(* ascending order of row index.                                           *)
(***************************************************************************)
C9_Ascending ==
  \A w \in WorkerIds : \A i, j \in 1 .. Len(out[w]) :
    i < j => out[w][i].idx < out[w][j].idx

C9_Witness ==
  /\ num_workers_it = 2
  /\ Len(out[0]) = 2
  /\ out[0][1].idx = 0
  /\ out[0][2].idx = 2
  /\ Len(out[1]) = 1

(***************************************************************************)
(* C10. Fetch failure aborts the worker's pass: the failing fetch is the   *)
(* worker's last one (no retry, no skip), the error surfaces on that step, *)
(* the worker yields nothing for that index or a later one, and what it    *)
(* yielded before stays yielded until a new pass starts.                   *)
(***************************************************************************)
FailedAt(w, i) == i \in 1 .. Len(fetched[w]) /\ ~fetched[w][i].res.ok

C10_Aborted ==
  \A w \in WorkerIds : \A i \in 1 .. Len(fetched[w]) :
    FailedAt(w, i) =>
      /\ i = Len(fetched[w])
      /\ pc[w] = "raised"
      /\ \A j \in 1 .. Len(out[w]) : out[w][j].idx < fetched[w][i].idx
      /\ \A j \in 1 .. (i - 1) : fetched[w][j].idx # fetched[w][i].idx

C10_FetchFailureAborts ==
  /\ []C10_Aborted
  /\ [][\A w \in WorkerIds :
          /\ (Len(fetched'[w]) = Len(fetched[w]) + 1 /\ ~fetched'[w][Len(fetched'[w])].res.ok)
               => (raised' = "FetchError" /\ out'[w] = out[w])
          /\ (FailedAt(w, Len(fetched[w])) /\ out'[w] # out[w])
               => op' \in {"iter", "construct"}]_vars

C10_Witness ==
  /\ num_workers_it = 2
  /\ pc[0] = "raised"
  /\ raised = "FetchError"
  /\ Len(out[0]) = 1
  /\ Len(fetched[0]) = 2
  /\ FailedAt(0, 2)
  /\ pc[1] = "done"

(***************************************************************************)
(* Vocabulary of the data module's properties                              *)
(***************************************************************************)
RowsOf(ds) == {ds.gdf[i] : i \in 1 .. Len(ds.gdf)}
IdsOf(ds) == {r.id : r \in RowsOf(ds)}
FacilitiesOf(ds) == {r.facility_id : r \in RowsOf(ds)}
FinalRows == {final[i] : i \in 1 .. Len(final)}
\* ids of the rows of the joined table at or after the test year
LateIds == {r.id : r \in {x \in FinalRows : x.year >= dm.test_year}}

(***************************************************************************)
(* C6. Year override: setup labels every row whose year is >= test_year    *)
(* as test, whatever its facility is mapped to: the rows of the train and  *)
(* val streams all have year < test_year and carry their stream's label,   *)
(* and the test stream holds exactly the rows with year >= test_year.      *)
(***************************************************************************)
C6_YearOverride ==
  /\ train_dataset.exists =>
       \A r \in RowsOf(train_dataset) : r.year < dm.test_year /\ r.data_set = "train"
  /\ val_dataset.exists =>
       \A r \in RowsOf(val_dataset) : r.year < dm.test_year /\ r.data_set = "val"
  /\ test_dataset.exists =>
       /\ IdsOf(test_dataset) = LateIds
       /\ Len(test_dataset.gdf) = Cardinality(LateIds)
       /\ \A r \in RowsOf(test_dataset) : r.data_set = "test"

\* the test stream holds a row at the test year whose facility has rows in
\* the train stream, and a row after the test year
C6_Witness ==
  /\ train_dataset.exists
  /\ test_dataset.exists
  /\ \E r1, r2 \in RowsOf(test_dataset) :
       /\ r1.year = dm.test_year
       /\ r2.year > dm.test_year
       /\ r1.facility_id \in FacilitiesOf(train_dataset)

(***************************************************************************)
(* C7. No train/val leakage: the train and val streams the data module     *)
(* holds share no facility, and all rows of a facility that are before the *)
(* test year are together in train or together in val; a facility may have *)
(* rows in test as well as in one of train and val.                        *)
(***************************************************************************)
C7_NoLeakage ==
  (train_dataset.exists /\ val_dataset.exists) =>
    /\ FacilitiesOf(train_dataset) \cap FacilitiesOf(val_dataset) = {}
    /\ \A f \in facilities :
         LET early == {r.id : r \in {x \in FinalRows : x.facility_id = f /\ x.year < dm.test_year}}
         IN \/ (early \subseteq IdsOf(train_dataset) /\ early \cap IdsOf(val_dataset) = {})
            \/ (early \subseteq IdsOf(val_dataset) /\ early \cap IdsOf(train_dataset) = {})

C7_Witness ==
  /\ train_dataset.exists
  /\ val_dataset.exists
  /\ test_dataset.exists
  /\ FacilitiesOf(train_dataset) # {}
  /\ FacilitiesOf(test_dataset) \cap FacilitiesOf(val_dataset) # {}

(***************************************************************************)
(* C8. Partition sizes: the partitioner maps every facility of a set of    *)
(* F >= 1 facilities to exactly one of train and val, the number of train  *)
(* facilities is within 1 of round(F * r), and four facilities at ratio    *)
(* 0.5 always split 2 / 2.                                                 *)
(***************************************************************************)
\* Python's round(F * r) for r in tenths: halves go to the even neighbour
Round(F, r) ==
  LET q == (F * r) \div 10
      rem == (F * r) % 10
  IN IF rem < 5 THEN q
     ELSE IF rem > 5 THEN q + 1
     ELSE IF q % 2 = 0 THEN q ELSE q + 1

NumMapped(set) == Cardinality({f \in DOMAIN partition : partition[f] = set})

C8_PartitionSizes ==
  (op = "get_facility_set_mapper" /\ raised = "none") =>
    LET F == Cardinality(facilities)
        r == dm.train_val_ratio
    IN /\ F >= 1
       /\ DOMAIN partition = facilities
       /\ \A f \in facilities : partition[f] \in {"train", "val"}
       /\ NumMapped("train") + NumMapped("val") = F
       /\ NumMapped("train") - Round(F, r) \in {-1, 0, 1}
       /\ (F = 4 /\ r = 5) => (NumMapped("train") = 2 /\ NumMapped("val") = 2)

C8_Witness ==
  /\ op = "get_facility_set_mapper"
  /\ raised = "none"
  /\ facilities = 1 .. 4
  /\ dm.train_val_ratio = 5
  /\ NumMapped("train") = 2
  /\ partition[1] = "val"

(***************************************************************************)
(* Vocabulary of the properties of a Sample                                *)
(***************************************************************************)
\* the fetch of index idx by process w
FetchAt(w, idx) ==
  fetched[w][CHOOSE i \in 1 .. Len(fetched[w]) : fetched[w][i].idx = idx]
\* the row of the table a Sample was made from
RowAt(idx) == dataset.gdf[idx + 1]
\* position of the first occurrence of a step in a step sequence, 0 if none
StepPos(steps, name) ==
  IF \E k \in 1 .. Len(steps) : steps[k] = name
    THEN CHOOSE k \in 1 .. Len(steps) :
           steps[k] = name /\ \A j \in 1 .. (k - 1) : steps[j] # name
  ELSE 0

(***************************************************************************)
(* C14. Image shape: the image of every yielded Sample has exactly three   *)
(* dimensions, channels x height x width. With a transform that returns    *)
(* the image under an extra leading dimension of size 1 that dimension is  *)
(* removed; with no transform, or one that adds no dimension, the image    *)
(* keeps the dimensions of the fetched image, single-channel included.     *)
(***************************************************************************)
C14_ImageShape ==
  \A w \in WorkerIds : \A i \in 1 .. Len(out[w]) :
    LET s == out[w][i]
        f == FetchAt(w, s.idx)
    IN /\ Len(s.image.shape) = 3
       /\ dataset.transforms = "adds_leading_dim" => s.image.shape = f.res.shape
       /\ dataset.transforms \in {"none", "same_dims"} => s.image.shape = f.res.shape

(***************************************************************************)
(* C17. Per-row step order: for every row whose fetch returned, the        *)
(* darkness check is given the fetched image as a float tensor that no     *)
(* transform has touched, and it runs before the transform; for a row      *)
(* skipped as too dark the transform, the target cast and the metadata     *)
(* construction are not executed.                                          *)
(***************************************************************************)
C17_StepOrder ==
  \A w \in WorkerIds : \A i \in 1 .. Len(fetched[w]) :
    LET f == fetched[w][i]
    IN f.res.ok =>
         /\ StepPos(f.steps, "get_image_from_cog") = 1
         /\ StepPos(f.steps, "float") = 2
         /\ StepPos(f.steps, "is_image_too_dark") = 3
         /\ f.checked.dtype = "float32"
         /\ f.checked.transformed = "none"
         /\ f.checked.shape = f.res.shape
         /\ f.checked.dark = f.res.dark
         /\ \A k \in 1 .. Len(f.steps) :
              f.steps[k] \in {"transforms", "squeeze", "target", "metadata", "yield"}
                => /\ k > StepPos(f.steps, "is_image_too_dark")
                   /\ f.res.dark <= dataset.max_dark_frac
         /\ f.res.dark > dataset.max_dark_frac =>
              /\ f.steps = <<"get_image_from_cog", "float", "is_image_too_dark">>
              /\ f.idx \notin YieldedIdx(w)
         /\ (dataset.transforms # "none" /\ f.idx \in YieldedIdx(w)) =>
              StepPos(f.steps, "transforms") = 4

\* with a transform configured, one row was skipped as too dark and the
\* next one went through transform, target and metadata to the yield
C17_Witness ==
  /\ dataset.exists
  /\ dataset.transforms = "same_dims"
  /\ Len(fetched[0]) = 2
  /\ fetched[0][1].res.dark > dataset.max_dark_frac
  /\ fetched[0][2].steps = <<"get_image_from_cog", "float", "is_image_too_dark",
                             "transforms", "squeeze", "target", "metadata", "yield">>
  /\ Len(out[0]) = 1

\* the metadata of Sample s is the row's: its fields without the target
\* field, the geometry and the split label, each with the row's value, the
\* timestamp as its string form
MetadataOfRow(s, row) ==
  /\ DOMAIN s.metadata = dataset.columns \ {dataset.target, "geometry", "data_set"}
  /\ \A c \in DOMAIN s.metadata :
       s.metadata[c] = IF c = "ts" THEN [type |-> "str", of |-> RowValue(row, "ts")]
                       ELSE RowValue(row, c)
  /\ s.id = row.id

\* the integer x is a 32-bit float: its magnitude is a significand below
\* 2^24 times a power of two
RECURSIVE IsFloat32(_)
IsFloat32(x) ==
  LET a == IF x < 0 THEN -x ELSE x
  IN IF a < 16777216 THEN TRUE
     ELSE a % 2 = 0 /\ IsFloat32(a \div 2)

\* the distance of two integers
Distance(x, y) == IF x < y THEN y - x ELSE x - y

\* how far around a row's value the 32-bit floats are looked for
NearBy == 4

(***************************************************************************)
(* C18. Metadata content, as stated: the keys of a yielded Sample's        *)
(* metadata are the row's fields without the target field, the geometry    *)
(* and the split label; every value is the row's value for its key, except *)
(* the timestamp, which is its string form; the Sample's target equals the *)
(* row's value of the configured target field.                             *)
(***************************************************************************)
C18_Original ==
  \A w \in WorkerIds : \A i \in 1 .. Len(out[w]) :
    LET s == out[w][i]
        row == RowAt(s.idx)
    IN /\ MetadataOfRow(s, row)
       /\ s.target.value = RowValue(row, dataset.target)

(***************************************************************************)
(* C18. Metadata content, amended: the metadata is as stated; the Sample's *)
(* target is a 32-bit float scalar, the float nearest to the row's value   *)
(* of the configured target field: no 32-bit float is closer to the row's  *)
(* value, of two nearest floats it is the one with the even significand,   *)
(* and the target equals the row's value exactly when that value is itself *)
(* a 32-bit float.                                                         *)
(***************************************************************************)
C18_Metadata ==
  \A w \in WorkerIds : \A i \in 1 .. Len(out[w]) :
    LET s == out[w][i]
        row == RowAt(s.idx)
        v == RowValue(row, dataset.target)
    IN /\ MetadataOfRow(s, row)
       /\ s.target.dtype = "float32"
       /\ IsFloat32(s.target.value)
       /\ \A d \in (0 - NearBy) .. NearBy :
            IsFloat32(v + d) => Distance(s.target.value, v) <= Distance(v + d, v)
       /\ \A d \in 1 .. NearBy :
            (IsFloat32(v - d) /\ IsFloat32(v + d) /\ Distance(s.target.value, v) = d) =>
              s.target.value % (4 * d) = 0
       /\ (s.target.value = v) <=> IsFloat32(v)

\* a Sample of a row whose emissions value no 32-bit float holds exactly
C18_Witness ==
  /\ Len(out[0]) = 2
  /\ RowAt(out[0][2].idx).co2 = 16777217
  /\ out[0][2].target.value = 16777216
  /\ RowAt(out[0][1].idx).co2 = 0
  /\ out[0][1].target.value = 0
  /\ out[0][2].metadata["ts"] = Str(Timestamp(TEST_YEAR))
  /\ "facility_name" \in DOMAIN out[0][2].metadata
  /\ "geometry" \notin DOMAIN out[0][2].metadata

(***************************************************************************)
(* C11. Stateless restart: the stream keeps no cursor. Whatever the pass   *)
(* before was (completed, left part-way by the consumer, or failed),       *)
(* starting iteration again gives every worker a fresh pass: nothing       *)
(* fetched, nothing yielded, position 0 of its index sequence, and the     *)
(* indices it then visits are i, i + W, i + 2W, ... from the first one, as *)
(* in a first pass (row 0 for the single process). Starting and running a  *)
(* pass leave the table and the stream's configuration unchanged.          *)
(***************************************************************************)
C11_FromStart ==
  \A w \in Active :
    /\ pos[w] = Len(fetched[w])
    /\ \A i \in 1 .. Len(fetched[w]) : fetched[w][i].idx = w + (i - 1) * W

C11_StatelessRestart ==
  /\ []C11_FromStart
  /\ [][op' = "iter" =>
          /\ \A w \in WorkerIds : pos'[w] = 0 /\ fetched'[w] = <<>> /\ out'[w] = <<>>
          /\ dataset' = dataset]_vars
  /\ [][op' = "next" => dataset' = dataset]_vars

\* a pass left part-way was replaced by a new pass, which both workers ran
\* from their first index to the end
C11_Witness ==
  /\ prev_pass = "interrupted"
  /\ num_workers_it = 2
  /\ N = 3
  /\ PassComplete
  /\ Len(fetched[0]) = 2
  /\ fetched[0][1].idx = 0
  /\ fetched[0][2].idx = 2
  /\ Len(fetched[1]) = 1
  /\ fetched[1][1].idx = 1

(***************************************************************************)
(* Vocabulary of the properties of setup                                   *)
(***************************************************************************)
SetupCalled == op = "setup"
\* ids of the rows of the joined table before the test year
EarlyIds == {r.id : r \in {x \in FinalRows : x.year < dm.test_year}}
\* the row of the joined table a stream's row was taken from, under a label
Labelled(r, label) ==
  /\ r.id \in 0 .. (Len(final) - 1)
  /\ r.facility_id = final[r.id + 1].facility_id
  /\ r.year = final[r.id + 1].year
  /\ r.co2 = final[r.id + 1].co2
  /\ r.data_set = label
\* a stream's table holds no row twice
NoDuplicate(ds) == Len(ds.gdf) = Cardinality(IdsOf(ds))
\* ids of the rows process w of a pass with nw workers visits, in order
PassOrder(ds, nw, w) ==
  LET indices == IterIndices(ds, GetWorkerInfo(nw, w))
  IN [i \in 1 .. Len(indices) |-> ds.gdf[indices[i] + 1].id]
\* every pass over the stream walks its table in the order setup gave it:
\* process w of nw visits the rows at positions w, w + nw, ... of the table
InTableOrder(ds, nw) ==
  \A w \in Processes(nw) :
    LET step == IF nw = 0 THEN 1 ELSE nw
        order == PassOrder(ds, nw, w)
    IN /\ Len(order) = Cardinality({k \in 0 .. (Len(ds.gdf) - 1) : k % step = w})
       /\ \A i \in 1 .. Len(order) : order[i] = ds.gdf[w + (i - 1) * step + 1].id

(***************************************************************************)
(* C12. Stage-dependent construction: a setup("fit") that returns has      *)
(* assigned the train and val streams and leaves the test stream as it     *)
(* was; a setup("test") that returns has assigned the test stream and      *)
(* leaves the train and val streams as they were. A split's loader is      *)
(* returned only when its stream exists, and a stream comes to exist only  *)
(* in a setup call of its stage.                                           *)
(***************************************************************************)
C12_StageConstruction ==
  /\ [][(op' = "setup" /\ stage' = "fit") =>
          /\ test_dataset' = test_dataset
          /\ raised' = "none" =>
               /\ train_dataset'.exists /\ train_dataset'.transforms = "train_transforms"
               /\ val_dataset'.exists /\ val_dataset'.transforms = "val_transforms"
               /\ \A r \in RowsOf(train_dataset') : r.data_set = "train"
               /\ \A r \in RowsOf(val_dataset') : r.data_set = "val"]_vars
  /\ [][(op' = "setup" /\ stage' = "test") =>
          /\ train_dataset' = train_dataset
          /\ val_dataset' = val_dataset
          /\ raised' = "none" =>
               /\ test_dataset'.exists /\ test_dataset'.transforms = "test_transforms"
               /\ \A r \in RowsOf(test_dataset') : r.data_set = "test"]_vars
  /\ [][/\ (~train_dataset.exists /\ train_dataset'.exists) => (op' = "setup" /\ stage' = "fit")
        /\ (~val_dataset.exists /\ val_dataset'.exists) => (op' = "setup" /\ stage' = "fit")
        /\ (~test_dataset.exists /\ test_dataset'.exists) => (op' = "setup" /\ stage' = "test")
        /\ op' = "train_dataloader" => (raised' = "none" <=> train_dataset.exists)
        /\ op' = "val_dataloader" => (raised' = "none" <=> val_dataset.exists)
        /\ op' = "test_dataloader" => (raised' = "none" <=> test_dataset.exists)]_vars

\* after setup("fit") alone the test loader is asked for and is not there
C12_Witness ==
  /\ train_dataset.exists
  /\ val_dataset.exists
  /\ Len(train_dataset.gdf) > 0
  /\ Len(val_dataset.gdf) > 0
  /\ ~test_dataset.exists
  /\ op = "test_dataloader"
  /\ raised = "AttributeError"

(***************************************************************************)
(* C13. Empty facility set: setup on an empty facility collection fails,   *)
(* whatever the stage; the failure comes before any stream is constructed, *)
(* so the train, val and test streams are what they were before the call.  *)
(***************************************************************************)
C13_EmptyFacilities ==
  /\ [](facilities = {} =>
          /\ ~train_dataset.exists /\ ~val_dataset.exists /\ ~test_dataset.exists
          /\ SetupCalled => raised # "none")
  /\ [][(op' = "setup" /\ facilities = {}) =>
          /\ raised' # "none"
          /\ UNCHANGED <<train_dataset, val_dataset, test_dataset>>]_vars

C13_Witness ==
  /\ facilities = {}
  /\ op = "setup"
  /\ stage = "fit"
  /\ raised = "ValueError"
  /\ ~train_dataset.exists

(***************************************************************************)
(* C15. Split streams partition the table: every stream setup has built    *)
(* holds rows of the joined table under its own label, none twice; the     *)
(* train and val streams (built together) are disjoint and together hold   *)
(* exactly the rows before the test year; the test stream holds exactly    *)
(* the rows from the test year on, so it shares no row with train or val   *)
(* even when built by another setup call with another facility mapping,    *)
(* and the three together hold every row once. A stream's table is         *)
(* replaced by setup only, and every pass walks it in the table's order.   *)
(***************************************************************************)
C15_Partition ==
  /\ train_dataset.exists =>
       /\ \A r \in RowsOf(train_dataset) : Labelled(r, "train")
       /\ NoDuplicate(train_dataset)
       /\ InTableOrder(train_dataset, dm.num_workers)
  /\ val_dataset.exists =>
       /\ \A r \in RowsOf(val_dataset) : Labelled(r, "val")
       /\ NoDuplicate(val_dataset)
       /\ InTableOrder(val_dataset, dm.num_workers)
  /\ test_dataset.exists =>
       /\ \A r \in RowsOf(test_dataset) : Labelled(r, "test")
       /\ NoDuplicate(test_dataset)
       /\ InTableOrder(test_dataset, dm.num_workers)
       /\ IdsOf(test_dataset) = {r.id : r \in FinalRows} \ EarlyIds
  /\ (train_dataset.exists /\ val_dataset.exists) =>
       /\ IdsOf(train_dataset) \cap IdsOf(val_dataset) = {}
       /\ IdsOf(train_dataset) \cup IdsOf(val_dataset) = EarlyIds
  /\ (train_dataset.exists /\ test_dataset.exists) =>
       IdsOf(test_dataset) \cap IdsOf(train_dataset) = {}
  /\ (val_dataset.exists /\ test_dataset.exists) =>
       IdsOf(test_dataset) \cap IdsOf(val_dataset) = {}
  /\ (train_dataset.exists /\ val_dataset.exists /\ test_dataset.exists) =>
       Len(train_dataset.gdf) + Len(val_dataset.gdf) + Len(test_dataset.gdf) = Len(final)

C15_SplitStreams ==
  /\ []C15_Partition
  /\ [][op' # "setup" => UNCHANGED <<train_dataset, val_dataset, test_dataset>>]_vars

\* all three streams exist and are not empty, and the train stream's order
\* is not the joined table's
C15_Witness ==
  /\ train_dataset.exists /\ val_dataset.exists /\ test_dataset.exists
  /\ Len(train_dataset.gdf) = 2
  /\ train_dataset.gdf[1].id > train_dataset.gdf[2].id
  /\ Len(test_dataset.gdf) = 1
  /\ op = "train_dataloader"

(***************************************************************************)
(* C19. Unknown stage, as stated: a setup call with a stage other than     *)
(* "fit" and "test" raises no error, constructs no stream and leaves every *)
(* stream as it was.                                                       *)
(***************************************************************************)
C19_Original ==
  [][(op' = "setup" /\ stage' \notin {"fit", "test"}) =>
       /\ raised' = "none"
       /\ UNCHANGED <<train_dataset, val_dataset, test_dataset>>]_vars

(***************************************************************************)
(* C19. Unknown stage, amended: a setup call with a stage other than "fit" *)
(* and "test" is not rejected for its stage. It constructs no stream and   *)
(* leaves every stream as it was; it raises nothing when the facility      *)
(* collection and the joined table are not empty, and otherwise fails only *)
(* as every setup call does before the stage is looked at: with ValueError *)
(* on an empty facility collection, with ValueError or not at all on a     *)
(* joined table without rows. A val stream that no setup("fit") has built  *)
(* stays absent, and the val loader is then not available.                 *)
(***************************************************************************)
C19_UnknownStage ==
  /\ [][(op' = "setup" /\ stage' \notin {"fit", "test"}) =>
          /\ UNCHANGED <<train_dataset, val_dataset, test_dataset>>
          /\ raised' \in {"none", "ValueError"}
          /\ (facilities # {} /\ final # <<>>) => raised' = "none"
          /\ facilities = {} => raised' = "ValueError"]_vars
  /\ [][(op' = "val_dataloader" /\ ~val_dataset.exists) => raised' = "AttributeError"]_vars
  /\ []((op = "setup" /\ stage = "validate" /\ ~train_dataset.exists) => ~val_dataset.exists)

\* setup("validate") has returned without an error; the test stream built
\* earlier is still there and there is no val stream
C19_Witness ==
  /\ op = "setup"
  /\ stage = "validate"
  /\ raised = "none"
  /\ test_dataset.exists
  /\ Len(test_dataset.gdf) > 0
  /\ ~val_dataset.exists

(***************************************************************************)
(* C16. Lazy, single fetch: constructing a stream (which is all that setup *)
(* does with a stream) fetches no image, and neither does starting a pass; *)
(* in a pass a worker fetches only indices of its own shard, each at most  *)
(* once, a dark row included; one step of the loop fetches at most one     *)
(* image, and when a worker fetches an index every earlier index it        *)
(* fetched has been skipped as dark or handed to the consumer.             *)
(***************************************************************************)
IsBright(f) == f.res.ok /\ f.res.dark <= dataset.max_dark_frac
Fetches == SumLen(fetched, WorkerIds)

C16_NoReadAhead ==
  /\ \A w \in WorkerIds \ Active : fetched[w] = <<>>
  /\ \A w \in Active :
       /\ FetchedIdx(w) \subseteq Shard(w)
       /\ NoRepeat(fetched[w])
       /\ Len(fetched[w]) <= pos[w]
       /\ \A i \in 1 .. (Len(fetched[w]) - 1) :
            /\ fetched[w][i].res.ok
            /\ IsBright(fetched[w][i]) => fetched[w][i].idx \in YieldedIdx(w)
       /\ \A j \in 1 .. Len(out[w]) : out[w][j].idx \in FetchedIdx(w)

C16_LazyFetch ==
  /\ []C16_NoReadAhead
  /\ [][op' \in {"construct", "iter"} =>
          \A w \in WorkerIds : fetched'[w] = <<>> \/ fetched'[w] = fetched[w]]_vars
  /\ [][op' = "iter" => \A w \in WorkerIds : fetched'[w] = <<>>]_vars
  /\ [][op' = "next" =>
          /\ Fetches' <= Fetches + 1
          /\ \A w \in WorkerIds : Len(out'[w]) > Len(out[w]) =>
               /\ Len(fetched'[w]) = Len(fetched[w]) + 1
               /\ out'[w][Len(out'[w])].idx = fetched'[w][Len(fetched'[w])].idx]_vars

\* worker 0 has fetched a dark row 0, then row 2, which it yielded; nothing
\* has been pulled from worker 1, which has fetched nothing
C16_Witness ==
  /\ num_workers_it = 2
  /\ N = 3
  /\ Len(fetched[0]) = 2
  /\ fetched[0][1].idx = 0
  /\ fetched[0][1].res.dark > dataset.max_dark_frac
  /\ fetched[0][2].idx = 2
  /\ YieldedIdx(0) = {2}
  /\ pc[1] = "running"
  /\ fetched[1] = <<>>

====
